---- MODULE Spec2Model ----
(***************************************************************************)
(* A model of the argument parser of src/src/lib.rs: the grammar builder   *)
(* (ArgParser::new, arg, short, long, takes_value, required, default,      *)
(* validator, subcommand) and the matcher (ArgParser::parse).              *)
(*                                                                         *)
(* Strings are sequences of one-character strings, so that starts_with,    *)
(* &arg[2..] and chars().skip(1) are computed as the code computes them.   *)
(* An Option<T> is a sequence of length at most one: None is <<>> and      *)
(* Some(x) is <<x>>.  A HashMap is a function on its set of keys.          *)
(* Sequences are 1-based: Rust's args[0] is args[1] here.                  *)
(***************************************************************************)
EXTENDS Naturals, Sequences, FiniteSets

VARIABLES
    parser,       \* the ArgParser (self) of the running call: args, subcommands
    args,         \* parse: the token slice the running call was given
    pos,          \* parse: index in args of the token iter.next() yields next
    chars,        \* parse: characters of the short cluster still to process
    values,       \* parse: the local HashMap values
    flags,        \* parse: the local HashMap flags
    positionals,  \* parse: the local Vec positionals
    pc,           \* "build" | "loop" | "cluster" | "done"
    result,       \* the outcome of parse: running, ok, or the panic
    depth,        \* history: number of subcommand delegations so far
    log,          \* history: one event per classified token / cluster character
    input,        \* history: the parser and token list parse was first called with
    lastCall      \* history: the last builder call made

vars == <<parser, args, pos, chars, values, flags, positionals, pc, result,
          depth, log, input, lastCall>>

-----------------------------------------------------------------------------
(* Bounds of the model *)

\* longest token list handed to parse, not counting the program name
MaxTokens == 3

\* most arg() calls made on one parser in the builder specification
MaxArgs == 2

-----------------------------------------------------------------------------
(* Strings, options and maps *)

None == <<>>

Some(x) == <<x>>

EmptyMap == [k \in {} |-> k]

Insert(m, k, v) == [x \in (DOMAIN m) \cup {k} |-> IF x = k THEN v ELSE m[x]]

\* str::starts_with
StartsWith(s, prefix) ==
    /\ Len(s) >= Len(prefix)
    /\ SubSeq(s, 1, Len(prefix)) = prefix

\* the least element of a set of indices, 0 for the empty set: the index
\* iter().find(..) stops at
FirstIdx(S) == IF S = {} THEN 0 ELSE CHOOSE i \in S : \A j \in S : i <= j

-----------------------------------------------------------------------------
(* The inputs: names, aliases, tokens, validators *)

nameA == <<"a">>
nameB == <<"b">>
Names == {nameA, nameB}

ShortChars == {"x"}
LongNames == {<<"l">>}
Defaults == {<<"d">>}

tokProg == <<"p", "r", "o", "g">>
tokLong == <<"-", "-", "l">>
tokUnknownLong == <<"-", "-", "q">>
tokCluster == <<"-", "x", "z", "y">>
tokSub == <<"s">>
tokV == <<"v">>

Tokens == {tokLong, tokUnknownLong, tokCluster, tokSub, tokV}

\* The validators a caller may attach, by name: the closure behind the Arc.
ValidatorIds == {"isV"}

\* validator(value): the call of the attached closure
Validate(vid, value) ==
    CASE vid = "isV" -> value = tokV

-----------------------------------------------------------------------------
(* The grammar builder *)

\* ArgParser::new
NewParser == [args |-> <<>>, subcommands |-> EmptyMap]

NewArg(name) ==
    [name |-> name, short |-> None, long |-> None, takes_value |-> FALSE,
     required |-> FALSE, default |-> None, validator |-> None]

\* the greatest element of a set of indices, 0 for the empty set
LastIdx(S) == IF S = {} THEN 0 ELSE CHOOSE i \in S : \A j \in S : j <= i

\* a find that returns the last match instead of the first
FindByNameLast(p, name) ==
    LastIdx({i \in DOMAIN p.args : p.args[i].name = name})

\* self.args.iter_mut().find(|a| a.name == name): 0 when there is none
FindByName(p, name) ==
    FirstIdx({i \in DOMAIN p.args : p.args[i].name = name})

\* ArgParser::arg
arg(p, name) == [p EXCEPT !.args = Append(@, NewArg(name))]

\* ArgParser::short
short(p, name, c) ==
    LET i == FindByName(p, name)
    IN  IF i # 0 THEN [p EXCEPT !.args[i].short = Some(c)] ELSE p

\* ArgParser::long
long(p, name, l) ==
    LET i == FindByName(p, name)
    IN  IF i # 0 THEN [p EXCEPT !.args[i].long = Some(l)] ELSE p

\* ArgParser::takes_value
takes_value(p, name) ==
    LET i == FindByName(p, name)
    IN  IF i # 0 THEN [p EXCEPT !.args[i].takes_value = TRUE] ELSE p

\* ArgParser::required
required(p, name) ==
    LET i == FindByName(p, name)
    IN  IF i # 0 THEN [p EXCEPT !.args[i].required = TRUE] ELSE p

\* ArgParser::default
default(p, name, d) ==
    LET i == FindByName(p, name)
    IN  IF i # 0 THEN [p EXCEPT !.args[i].default = Some(d)] ELSE p

\* ArgParser::validator
validator(p, name, vid) ==
    LET i == FindByName(p, name)
    IN  IF i # 0 THEN [p EXCEPT !.args[i].validator = Some(vid)] ELSE p

\* ArgParser::subcommand
subcommand(p, name, child) ==
    [p EXCEPT !.subcommands = Insert(@, name, child)]

\* The child grammars handed to subcommand(): a leaf with one valued long
\* option, and a parser that has a subcommand of the same name itself.
ChildLeaf == takes_value(long(arg(NewParser, <<"c">>), <<"c">>, <<"l">>), <<"c">>)

ChildNested == subcommand(arg(NewParser, <<"c">>), tokSub, NewParser)

ChildParsers == {ChildLeaf, ChildNested}

-----------------------------------------------------------------------------
(* The matcher: one call of ArgParser::parse as a frame                    *)

\* The state of one running call of parse, as a record of the variables.
Frame ==
    [parser |-> parser, args |-> args, pos |-> pos, chars |-> chars,
     values |-> values, flags |-> flags, positionals |-> positionals,
     pc |-> pc, result |-> result, depth |-> depth, log |-> log]

Running == [kind |-> "running", name |-> <<>>]
Ok == [kind |-> "ok", name |-> <<>>]
InvalidValue(n) == [kind |-> "InvalidValue", name |-> n]
MissingRequiredArgument(n) == [kind |-> "MissingRequiredArgument", name |-> n]

\* An entry of the history log: the token at index idx of the frame at depth
\* d was classified as kind ("long", "short", "sub", "pos"); for an option,
\* out tells what became of it ("unknown", "flag", "value", "novalue",
\* "invalid"), name is the matched Arg's name, vidx the index of the token
\* consumed as its value (0: none), validated whether its validator was
\* called, and c the cluster character.
Event(d, idx, kind, out, name, vidx, validated, c) ==
    [d |-> d, idx |-> idx, kind |-> kind, out |-> out, name |-> name,
     vidx |-> vidx, validated |-> validated, c |-> c]

\* The first lines of parse: empty accumulators, iter = args.iter().skip(1)
StartFrame(p, tokens, d, lg) ==
    [parser |-> p, args |-> tokens, pos |-> 2, chars |-> <<>>,
     values |-> EmptyMap, flags |-> EmptyMap, positionals |-> <<>>,
     pc |-> "loop", result |-> Running, depth |-> d, log |-> lg]

\* panic!: the call ends without an ArgMatches
Panic(f, err, ev) ==
    [f EXCEPT !.pc = "done", !.result = err, !.log = Append(@, ev)]

\* self.args.iter().find(|a| a.long.as_deref() == Some(name))
FindLong(p, name) ==
    FirstIdx({i \in DOMAIN p.args : p.args[i].long = Some(name)})

\* self.args.iter().find(|a| a.short == Some(c))
FindShort(p, c) ==
    FirstIdx({i \in DOMAIN p.args : p.args[i].short = Some(c)})

\* Fault variant of LongStep: the validator is never called.
LongStepUnvalidated(f) ==
    LET tok == f.args[f.pos]
        name == SubSeq(tok, 3, Len(tok))
        i == FindLong(f.parser, name)
        nxt == f.pos + 1
    IN  IF i = 0
        THEN [f EXCEPT !.pos = nxt,
                !.log = Append(@, Event(f.depth, f.pos, "long", "unknown", <<>>, 0, FALSE, ""))]
        ELSE LET a == f.parser.args[i] IN
             IF a.takes_value
             THEN IF nxt <= Len(f.args)
                  THEN LET value == f.args[nxt] IN
                       IF FALSE
                       THEN Panic(f, InvalidValue(name),
                                  Event(f.depth, f.pos, "long", "invalid", a.name, nxt, TRUE, ""))
                       ELSE [f EXCEPT !.pos = nxt + 1,
                               !.values = Insert(@, a.name, value),
                               !.log = Append(@, Event(f.depth, f.pos, "long", "value", a.name,
                                                       nxt, FALSE, ""))]
                  ELSE [f EXCEPT !.pos = nxt,
                          !.log = Append(@, Event(f.depth, f.pos, "long", "novalue", a.name,
                                                  0, FALSE, ""))]
             ELSE [f EXCEPT !.pos = nxt,
                     !.flags = Insert(@, a.name, TRUE),
                     !.log = Append(@, Event(f.depth, f.pos, "long", "flag", a.name, 0, FALSE, ""))]

\* Fault variant of LongStep: a flag swallows the token after it.
LongStepFlagTakesNext(f) ==
    LET tok == f.args[f.pos]
        name == SubSeq(tok, 3, Len(tok))
        i == FindLong(f.parser, name)
        nxt == f.pos + 1
    IN  IF i = 0
        THEN [f EXCEPT !.pos = nxt,
                !.log = Append(@, Event(f.depth, f.pos, "long", "unknown", <<>>, 0, FALSE, ""))]
        ELSE LET a == f.parser.args[i] IN
             IF a.takes_value
             THEN IF nxt <= Len(f.args)
                  THEN LET value == f.args[nxt] IN
                       IF a.validator # None /\ ~Validate(a.validator[1], value)
                       THEN Panic(f, InvalidValue(name),
                                  Event(f.depth, f.pos, "long", "invalid", a.name, nxt, TRUE, ""))
                       ELSE [f EXCEPT !.pos = nxt + 1,
                               !.values = Insert(@, a.name, value),
                               !.log = Append(@, Event(f.depth, f.pos, "long", "value", a.name,
                                                       nxt, a.validator # None, ""))]
                  ELSE [f EXCEPT !.pos = nxt,
                          !.log = Append(@, Event(f.depth, f.pos, "long", "novalue", a.name,
                                                  0, FALSE, ""))]
             ELSE [f EXCEPT !.pos = nxt + 1,
                     !.flags = Insert(@, a.name, TRUE),
                     !.log = Append(@, Event(f.depth, f.pos, "long", "flag", a.name, 0, FALSE, ""))]

\* Fault variant of LongStep: an option with no token left to take fails.
LongStepMissingValueFails(f) ==
    LET tok == f.args[f.pos]
        name == SubSeq(tok, 3, Len(tok))
        i == FindLong(f.parser, name)
        nxt == f.pos + 1
    IN  IF i = 0
        THEN [f EXCEPT !.pos = nxt,
                !.log = Append(@, Event(f.depth, f.pos, "long", "unknown", <<>>, 0, FALSE, ""))]
        ELSE LET a == f.parser.args[i] IN
             IF a.takes_value
             THEN IF nxt <= Len(f.args)
                  THEN LET value == f.args[nxt] IN
                       IF a.validator # None /\ ~Validate(a.validator[1], value)
                       THEN Panic(f, InvalidValue(name),
                                  Event(f.depth, f.pos, "long", "invalid", a.name, nxt, TRUE, ""))
                       ELSE [f EXCEPT !.pos = nxt + 1,
                               !.values = Insert(@, a.name, value),
                               !.log = Append(@, Event(f.depth, f.pos, "long", "value", a.name,
                                                       nxt, a.validator # None, ""))]
                  ELSE Panic(f, MissingRequiredArgument(a.name),
                             Event(f.depth, f.pos, "long", "novalue", a.name, 0, FALSE, ""))
             ELSE [f EXCEPT !.pos = nxt,
                     !.flags = Insert(@, a.name, TRUE),
                     !.log = Append(@, Event(f.depth, f.pos, "long", "flag", a.name, 0, FALSE, ""))]

\* The branch arg.starts_with("--") of one loop iteration.
LongStep(f) ==
    LET tok == f.args[f.pos]
        name == SubSeq(tok, 3, Len(tok))
        i == FindLong(f.parser, name)
        nxt == f.pos + 1
    IN  IF i = 0
        THEN [f EXCEPT !.pos = nxt,
                !.log = Append(@, Event(f.depth, f.pos, "long", "unknown", <<>>, 0, FALSE, ""))]
        ELSE LET a == f.parser.args[i] IN
             IF a.takes_value
             THEN IF nxt <= Len(f.args)
                  THEN LET value == f.args[nxt] IN
                       IF a.validator # None /\ ~Validate(a.validator[1], value)
                       THEN Panic(f, InvalidValue(name),
                                  Event(f.depth, f.pos, "long", "invalid", a.name, nxt, TRUE, ""))
                       ELSE [f EXCEPT !.pos = nxt + 1,
                               !.values = Insert(@, a.name, value),
                               !.log = Append(@, Event(f.depth, f.pos, "long", "value", a.name,
                                                       nxt, a.validator # None, ""))]
                  ELSE [f EXCEPT !.pos = nxt,
                          !.log = Append(@, Event(f.depth, f.pos, "long", "novalue", a.name,
                                                  0, FALSE, ""))]
             ELSE [f EXCEPT !.pos = nxt,
                     !.flags = Insert(@, a.name, TRUE),
                     !.log = Append(@, Event(f.depth, f.pos, "long", "flag", a.name, 0, FALSE, ""))]

\* The branch arg.starts_with('-'): chars = arg.chars().skip(1).collect()
ShortClusterStep(f) ==
    LET cs == Tail(f.args[f.pos])
    IN  [f EXCEPT !.pos = f.pos + 1, !.chars = cs,
           !.pc = IF cs = <<>> THEN "loop" ELSE "cluster",
           !.log = Append(@, Event(f.depth, f.pos, "short", "cluster", <<>>, 0, FALSE, ""))]

\* The index of the cluster token whose characters are being processed: the
\* last log entry is the cluster's own, or one of its earlier characters'.
ClusterIdx(f) == f.log[Len(f.log)].idx

\* Fault variant of ShortCharStep: a value-taking character takes the rest
\* of its cluster as the value when there is one.
ShortCharStepAttachedValue(f) ==
    LET c == Head(f.chars)
        rest == Tail(f.chars)
        i == FindShort(f.parser, c)
        at == ClusterIdx(f)
        back == IF rest = <<>> THEN "loop" ELSE "cluster"
    IN  IF i = 0
        THEN [f EXCEPT !.chars = rest, !.pc = back,
                !.log = Append(@, Event(f.depth, at, "short", "unknown", <<>>, 0, FALSE, c))]
        ELSE LET a == f.parser.args[i] IN
             IF a.takes_value
             THEN IF rest # <<>>
                  THEN [f EXCEPT !.chars = <<>>, !.pc = "loop",
                          !.values = Insert(@, a.name, rest),
                          !.log = Append(@, Event(f.depth, at, "short", "value", a.name,
                                                  0, a.validator # None, c))]
                  ELSE IF f.pos <= Len(f.args)
                  THEN LET value == f.args[f.pos] IN
                       IF a.validator # None /\ ~Validate(a.validator[1], value)
                       THEN Panic(f, InvalidValue(<<"-", c>>),
                                  Event(f.depth, at, "short", "invalid", a.name, f.pos, TRUE, c))
                       ELSE [f EXCEPT !.pos = f.pos + 1, !.chars = rest, !.pc = back,
                               !.values = Insert(@, a.name, value),
                               !.log = Append(@, Event(f.depth, at, "short", "value", a.name,
                                                       f.pos, a.validator # None, c))]
                  ELSE [f EXCEPT !.chars = rest, !.pc = back,
                          !.log = Append(@, Event(f.depth, at, "short", "novalue", a.name,
                                                  0, FALSE, c))]
             ELSE [f EXCEPT !.chars = rest, !.pc = back,
                     !.flags = Insert(@, a.name, TRUE),
                     !.log = Append(@, Event(f.depth, at, "short", "flag", a.name, 0, FALSE, c))]

\* One iteration of for &c in &chars.
ShortCharStep(f) ==
    LET c == Head(f.chars)
        rest == Tail(f.chars)
        i == FindShort(f.parser, c)
        at == ClusterIdx(f)
        back == IF rest = <<>> THEN "loop" ELSE "cluster"
    IN  IF i = 0
        THEN [f EXCEPT !.chars = rest, !.pc = back,
                !.log = Append(@, Event(f.depth, at, "short", "unknown", <<>>, 0, FALSE, c))]
        ELSE LET a == f.parser.args[i] IN
             IF a.takes_value
             THEN IF f.pos <= Len(f.args)
                  THEN LET value == f.args[f.pos] IN
                       IF a.validator # None /\ ~Validate(a.validator[1], value)
                       THEN Panic(f, InvalidValue(<<"-", c>>),
                                  Event(f.depth, at, "short", "invalid", a.name, f.pos, TRUE, c))
                       ELSE [f EXCEPT !.pos = f.pos + 1, !.chars = rest, !.pc = back,
                               !.values = Insert(@, a.name, value),
                               !.log = Append(@, Event(f.depth, at, "short", "value", a.name,
                                                       f.pos, a.validator # None, c))]
                  ELSE [f EXCEPT !.chars = rest, !.pc = back,
                          !.log = Append(@, Event(f.depth, at, "short", "novalue", a.name,
                                                  0, FALSE, c))]
             ELSE [f EXCEPT !.chars = rest, !.pc = back,
                     !.flags = Insert(@, a.name, TRUE),
                     !.log = Append(@, Event(f.depth, at, "short", "flag", a.name, 0, FALSE, c))]

\* The branch self.subcommands.contains_key(arg): the child is removed from
\* the map (self is dropped with the call) and parses &args[1..]; its result
\* is the call's result.
SubcommandStep(f) ==
    LET tok == f.args[f.pos]
        sub == f.parser.subcommands[tok]
    IN  StartFrame(sub, Tail(f.args), f.depth + 1,
                   Append(f.log, Event(f.depth, f.pos, "sub", "", <<>>, 0, FALSE, "")))

\* The else branch: positionals.push(arg.clone())
PositionalStep(f) ==
    [f EXCEPT !.pos = f.pos + 1,
       !.positionals = Append(@, f.args[f.pos]),
       !.log = Append(@, Event(f.depth, f.pos, "pos", "", <<>>, 0, FALSE, ""))]

\* Fault variant of RequiredFrom: the default of a required Arg replaces a
\* supplied value.
RECURSIVE RequiredFromDefaultWins(_, _, _)
RequiredFromDefaultWins(as, i, vals) ==
    IF i > Len(as)
    THEN [result |-> Ok, values |-> vals]
    ELSE LET a == as[i] IN
         IF a.required /\ (a.default # None \/ a.name \notin DOMAIN vals)
         THEN IF a.default # None
              THEN RequiredFromDefaultWins(as, i + 1, Insert(vals, a.name, a.default[1]))
              ELSE [result |-> MissingRequiredArgument(a.name), values |-> vals]
         ELSE RequiredFromDefaultWins(as, i + 1, vals)

\* for arg in &self.args { if arg.required && !values.contains_key(..) .. }
\* from the i-th Arg on: the values map, or the panic of the first Arg that
\* is required, has no value and no default.
RECURSIVE RequiredFrom(_, _, _)
RequiredFrom(as, i, vals) ==
    IF i > Len(as)
    THEN [result |-> Ok, values |-> vals]
    ELSE LET a == as[i] IN
         IF a.required /\ a.name \notin DOMAIN vals
         THEN IF a.default # None
              THEN RequiredFrom(as, i + 1, Insert(vals, a.name, a.default[1]))
              ELSE [result |-> MissingRequiredArgument(a.name), values |-> vals]
         ELSE RequiredFrom(as, i + 1, vals)

\* After the loop: the required/default pass and the ArgMatches.
FinalizeStep(f) ==
    LET r == RequiredFrom(f.parser.args, 1, f.values)
    IN  [f EXCEPT !.pc = "done", !.result = r.result, !.values = r.values]

\* One step of parse: the next cluster character, the next token, or the end.
Step(f) ==
    IF f.pc = "cluster" THEN ShortCharStep(f)
    ELSE IF f.pos > Len(f.args) THEN FinalizeStep(f)
    ELSE LET tok == f.args[f.pos] IN
         IF StartsWith(tok, <<"-", "-">>) THEN LongStep(f)
         ELSE IF StartsWith(tok, <<"-">>) THEN ShortClusterStep(f)
         ELSE IF tok \in DOMAIN f.parser.subcommands THEN SubcommandStep(f)
         ELSE PositionalStep(f)

\* parse(p, tokens) run to its end: the frame it ends in.
RECURSIVE Run(_)
Run(f) == IF f.pc = "done" THEN f ELSE Run(Step(f))

parse(p, tokens) == Run(StartFrame(p, tokens, 0, <<>>))

\* What a caller of parse observes: the ArgMatches, or the panic alone.
Outcome(f) ==
    IF f.result = Ok
    THEN [result |-> f.result, values |-> f.values, flags |-> f.flags,
          positionals |-> f.positionals]
    ELSE [result |-> f.result, values |-> EmptyMap, flags |-> EmptyMap,
          positionals |-> <<>>]

-----------------------------------------------------------------------------
(* The specification of parse: Spec                                        *)

\* The grammars parse is run on, each built by the builder calls a caller
\* would chain: Arg a (short x, long l) and Arg b (short y), their flags
\* chosen by cfg, an optional second arg("a"), an optional subcommand "s".
Cond(c, q, p) == IF c THEN q ELSE p

BuildA(cfg) ==
    LET p1 == long(short(arg(NewParser, nameA), nameA, "x"), nameA, <<"l">>)
        p2 == Cond(cfg.tvA, takes_value(p1, nameA), p1)
        p3 == Cond(cfg.reqA, required(p2, nameA), p2)
        p4 == Cond(cfg.defA, default(p3, nameA, <<"d">>), p3)
    IN  Cond(cfg.valA, validator(p4, nameA, "isV"), p4)

BuildB(p, cfg) ==
    LET p1 == short(arg(p, nameB), nameB, "y")
        p2 == Cond(cfg.kindB # "flag", takes_value(p1, nameB), p1)
    IN  Cond(cfg.kindB = "required", required(p2, nameB), p2)

Build(cfg) ==
    LET p1 == BuildB(BuildA(cfg), cfg)
        p2 == Cond(cfg.dup, arg(p1, nameA), p1)
    IN  Cond(cfg.sub # None, subcommand(p2, tokSub, cfg.sub[1]), p2)

Configs ==
    [tvA : BOOLEAN, reqA : BOOLEAN, defA : BOOLEAN, valA : BOOLEAN,
     kindB : {"flag", "valued", "required"}, dup : BOOLEAN,
     sub : {None} \cup {Some(c) : c \in ChildParsers}]

Grammars == {Build(cfg) : cfg \in Configs}

RECURSIVE SeqsUpTo(_, _)
SeqsUpTo(S, n) ==
    IF n = 0 THEN {<<>>}
    ELSE LET shorter == SeqsUpTo(S, n - 1)
         IN  shorter \cup {Append(s, t) : s \in {x \in shorter : Len(x) = n - 1}, t \in S}

\* The token lists: the program name and up to MaxTokens tokens, or nothing.
TokenLists == {<<>>} \cup {<<tokProg>> \o s : s \in SeqsUpTo(Tokens, MaxTokens)}

NoCall == [op |-> "none", name |-> <<>>, val |-> <<>>]

SetFrame(f) ==
    /\ parser' = f.parser
    /\ args' = f.args
    /\ pos' = f.pos
    /\ chars' = f.chars
    /\ values' = f.values
    /\ flags' = f.flags
    /\ positionals' = f.positionals
    /\ pc' = f.pc
    /\ result' = f.result
    /\ depth' = f.depth
    /\ log' = f.log
    /\ UNCHANGED <<input, lastCall>>

Init ==
    \E p \in Grammars, tokens \in TokenLists :
        /\ input = [parser |-> p, args |-> tokens]
        /\ lastCall = NoCall
        /\ LET f == StartFrame(p, tokens, 0, <<>>) IN
           /\ parser = f.parser
           /\ args = f.args
           /\ pos = f.pos
           /\ chars = f.chars
           /\ values = f.values
           /\ flags = f.flags
           /\ positionals = f.positionals
           /\ pc = f.pc
           /\ result = f.result
           /\ depth = f.depth
           /\ log = f.log

HasToken == pc = "loop" /\ pos <= Len(args)

LongOption ==
    /\ HasToken
    /\ StartsWith(args[pos], <<"-", "-">>)
    /\ SetFrame(LongStep(Frame))

ShortCluster ==
    /\ HasToken
    /\ ~StartsWith(args[pos], <<"-", "-">>)
    /\ StartsWith(args[pos], <<"-">>)
    /\ SetFrame(ShortClusterStep(Frame))

ShortChar ==
    /\ pc = "cluster"
    /\ SetFrame(ShortCharStep(Frame))

Subcommand ==
    /\ HasToken
    /\ ~StartsWith(args[pos], <<"-">>)
    /\ args[pos] \in DOMAIN parser.subcommands
    /\ SetFrame(SubcommandStep(Frame))

Positional ==
    /\ HasToken
    /\ ~StartsWith(args[pos], <<"-">>)
    /\ args[pos] \notin DOMAIN parser.subcommands
    /\ SetFrame(PositionalStep(Frame))

Finalize ==
    /\ pc = "loop"
    /\ pos > Len(args)
    /\ SetFrame(FinalizeStep(Frame))

Next ==
    \/ LongOption
    \/ ShortCluster
    \/ ShortChar
    \/ Subcommand
    \/ Positional
    \/ Finalize

Spec == Init /\ [][Next]_vars

-----------------------------------------------------------------------------
(* The specification of the builder: SpecBuild                             *)

Call(op, n, v) == [op |-> op, name |-> n, val |-> v]

InitBuild ==
    /\ parser = NewParser
    /\ pc = "build"
    /\ lastCall = NoCall
    /\ input = [parser |-> NewParser, args |-> <<>>]
    /\ args = <<>>
    /\ pos = 2
    /\ chars = <<>>
    /\ values = EmptyMap
    /\ flags = EmptyMap
    /\ positionals = <<>>
    /\ result = Running
    /\ depth = 0
    /\ log = <<>>

Built(p, call) ==
    /\ pc = "build"
    /\ parser' = p
    /\ lastCall' = call
    /\ UNCHANGED <<args, pos, chars, values, flags, positionals, pc, result,
                   depth, log, input>>

CallArg ==
    \E n \in Names :
        /\ Len(parser.args) < MaxArgs
        /\ Built(arg(parser, n), Call("arg", n, <<>>))

CallShort ==
    \E n \in Names, c \in ShortChars :
        Built(short(parser, n, c), Call("short", n, Some(c)))

CallLong ==
    \E n \in Names, l \in LongNames :
        Built(long(parser, n, l), Call("long", n, Some(l)))

CallTakesValue ==
    \E n \in Names : Built(takes_value(parser, n), Call("takes_value", n, TRUE))

CallRequired ==
    \E n \in Names : Built(required(parser, n), Call("required", n, TRUE))

CallDefault ==
    \E n \in Names, d \in Defaults :
        Built(default(parser, n, d), Call("default", n, Some(d)))

CallValidator ==
    \E n \in Names, v \in ValidatorIds :
        Built(validator(parser, n, v), Call("validator", n, Some(v)))

CallSubcommand ==
    \E child \in {ChildLeaf} :
        Built(subcommand(parser, tokSub, child), Call("subcommand", tokSub, child))

NextBuild ==
    \/ CallArg
    \/ CallShort
    \/ CallLong
    \/ CallTakesValue
    \/ CallRequired
    \/ CallDefault
    \/ CallValidator
    \/ CallSubcommand

SpecBuild == InitBuild /\ [][NextBuild]_vars

-----------------------------------------------------------------------------
(* Properties of the builder (SpecBuild)                                   *)

ArgFields ==
    {"name", "short", "long", "takes_value", "required", "default", "validator"}

\* the builder calls that configure an Arg found by name
ConfigOps == ArgFields \ {"name"}

\* q is p with the field call.op of the first Arg named call.name set to
\* call.val and nothing else changed; q is p when no Arg has that name.
OnlyFirstNamedChanged(p, q, call) ==
    LET S == {i \in DOMAIN p.args : p.args[i].name = call.name}
    IN  IF S = {}
        THEN q = p
        ELSE \E i \in S :
                /\ \A j \in S : i <= j
                /\ q.subcommands = p.subcommands
                /\ DOMAIN q.args = DOMAIN p.args
                /\ \A k \in (DOMAIN p.args) \ {i} : q.args[k] = p.args[k]
                /\ \A g \in ArgFields \ {call.op} : q.args[i][g] = p.args[i][g]
                /\ q.args[i][call.op] = call.val

\* every Arg registered under a name already taken is as arg() made it
LaterDuplicatesAtDefaults(p) ==
    \A k \in DOMAIN p.args :
        (\E j \in 1..(k - 1) : p.args[j].name = p.args[k].name)
            => p.args[k] = NewArg(p.args[k].name)

\* C10: each of short, long, takes_value, required, default and validator,
\* called with name n, sets only the corresponding field of the first Arg
\* named n in registration order; every other Arg (later Args of the same
\* name stay at their defaults) and the subcommand map are unchanged, and
\* when no Arg is named n the parser is unchanged.
C10_ConfigTouchesFirstMatchOnly ==
    [][lastCall'.op \in ConfigOps
         => /\ OnlyFirstNamedChanged(parser, parser', lastCall')
            /\ LaterDuplicatesAtDefaults(parser')]_vars

\* C10 witness: after a configuring call on a name registered twice, the
\* first Arg of that name carries the new field and the second is untouched.
C10_Witness ==
    /\ pc = "build"
    /\ lastCall.op \in ConfigOps
    /\ Len(parser.args) = 2
    /\ parser.args[1].name = lastCall.name
    /\ parser.args[2].name = lastCall.name
    /\ parser.args[1][lastCall.op] = lastCall.val
    /\ parser.args[2] = NewArg(lastCall.name)

-----------------------------------------------------------------------------
(* Properties of parse (Spec)                                              *)

Done == pc = "done"

\* the original index of the token at index idx of the frame at depth d:
\* every delegation hands on the tail of its token list
OrigIdx(e) == e.idx + e.d

LogEvents == {log[k] : k \in DOMAIN log}

\* the events of tokens (not of cluster characters)
TokenEvents == {e \in LogEvents : e.c = ""}

\* The option about to act in the current state, read off the grammar: the
\* index of the Arg the long option token or the cluster character matches
\* (0: none, or no option is next) and the index of the token it would consume.
AtLong == pc = "loop" /\ pos <= Len(args) /\ StartsWith(args[pos], <<"-", "-">>)

AtChar == pc = "cluster"

NextArg ==
    IF AtLong THEN FindLong(parser, SubSeq(args[pos], 3, Len(args[pos])))
    ELSE IF AtChar THEN FindShort(parser, Head(chars))
    ELSE 0

NextValueIdx == IF AtLong THEN pos + 1 ELSE pos

AtValuedOption == NextArg # 0 /\ parser.args[NextArg].takes_value

\* C1: when the first token the parent classifies as a subcommand is
\* T[i] = S, parse(T) returns exactly what the child grammar's parse returns
\* on the slice T[i..].
C1_SubcommandGetsSliceFromItsToken ==
    Done =>
        \A e \in LogEvents :
            (e.d = 0 /\ e.kind = "sub") =>
                LET tokens == input.args
                    child == input.parser.subcommands[tokens[e.idx]]
                IN  Outcome(Frame)
                        = Outcome(parse(child, SubSeq(tokens, e.idx, Len(tokens))))

\* C2: in every ArgMatches parse returns, no Arg with takes_value = false
\* has its name as a key of values and no Arg with takes_value = true has
\* its name as a key of flags.
C2_FlagsAndValuesSeparate ==
    (Done /\ result = Ok) =>
        \A i \in DOMAIN parser.args :
            LET a == parser.args[i]
            IN  /\ ~a.takes_value => a.name \notin DOMAIN values
                /\ a.takes_value => a.name \notin DOMAIN flags

\* the step that ends the token pass of a call and finalizes it
Finalizing == pc = "loop" /\ pos > Len(args) /\ pc' = "done"

\* the first Arg in registration order that is required and has neither a
\* value stored by the token pass nor a default (0: none)
FirstMissing ==
    FirstIdx({j \in DOMAIN parser.args :
                /\ parser.args[j].required
                /\ parser.args[j].name \notin DOMAIN values
                /\ parser.args[j].default = None})

\* C3 as stated: for every required valued Arg, a supplied value is kept, a
\* default fills a missing value, and with neither parse fails with
\* MissingRequiredArgument naming that Arg.  Stated for the grammars whose
\* required Args all take a value, where the finalization of required flags
\* (C4) plays no part.
C3_MissingNamesThatArg ==
    [][(Finalizing /\ \A j \in DOMAIN parser.args :
                        parser.args[j].required => parser.args[j].takes_value) =>
        \A i \in DOMAIN parser.args :
            LET a == parser.args[i] IN
            (a.required /\ a.takes_value) =>
                /\ (a.name \in DOMAIN values /\ result' = Ok)
                     => values'[a.name] = values[a.name]
                /\ (a.name \notin DOMAIN values /\ a.default # None /\ result' = Ok)
                     => values'[a.name] = a.default[1]
                /\ (a.name \notin DOMAIN values /\ a.default = None)
                     => result' = MissingRequiredArgument(a.name)]_vars

\* C3 amended: for every required valued Arg, when parse returns, a supplied
\* value is kept and a default fills a missing value; with neither, parse
\* fails with MissingRequiredArgument naming the first Arg in registration
\* order that is required and has neither a value nor a default.
C3_MissingNamesFirstSuchArg ==
    [][Finalizing =>
        \A i \in DOMAIN parser.args :
            LET a == parser.args[i] IN
            (a.required /\ a.takes_value) =>
                /\ (a.name \in DOMAIN values /\ result' = Ok)
                     => values'[a.name] = values[a.name]
                /\ (a.name \notin DOMAIN values /\ a.default # None /\ result' = Ok)
                     => values'[a.name] = a.default[1]
                /\ (a.name \notin DOMAIN values /\ a.default = None)
                     => /\ FirstMissing \in 1..i
                        /\ result' = MissingRequiredArgument(parser.args[FirstMissing].name)]_vars

\* C3 witness: parse failed naming Arg a while the required valued Arg b,
\* registered after it, has no value and no default either.
C3_Witness ==
    /\ Done
    /\ depth = 0
    /\ result = MissingRequiredArgument(nameA)
    /\ \E i \in DOMAIN parser.args :
          /\ parser.args[i].name = nameB
          /\ parser.args[i].required
          /\ parser.args[i].takes_value
          /\ parser.args[i].default = None
          /\ nameB \notin DOMAIN values

\* C4: an Arg with takes_value = false that is marked required never makes
\* parse fail with MissingRequiredArgument, and its default is never
\* inserted into values.
C4_RequiredFlagsNotFinalized ==
    Done =>
        \A i \in DOMAIN parser.args :
            LET a == parser.args[i] IN
            (~a.takes_value /\ a.required) =>
                /\ result # MissingRequiredArgument(a.name)
                /\ result = Ok => a.name \notin DOMAIN values

\* the value token the option about to act consumes is rejected by the
\* validator attached to its Arg
ValueRejected ==
    /\ AtValuedOption
    /\ NextValueIdx <= Len(args)
    /\ parser.args[NextArg].validator # None
    /\ ~Validate(parser.args[NextArg].validator[1], args[NextValueIdx])

\* a step of the token pass within one call: not the finalization, not a
\* delegation
PassStep == pc \in {"loop", "cluster"} /\ ~(pc = "loop" /\ pos > Len(args)) /\ depth' = depth

\* C5: when a value-taking option (long or short) with a validator consumes
\* a token its validator rejects, parse fails with InvalidValue there and
\* then and returns no ArgMatches; the token pass stores a value only for an
\* Arg without validator or whose validator accepted it.
C5_RejectedValueAborts ==
    [][/\ ValueRejected
            => /\ pc' = "done"
               /\ result' = InvalidValue(IF AtLong
                                         THEN SubSeq(args[pos], 3, Len(args[pos]))
                                         ELSE <<"-", Head(chars)>>)
       /\ (PassStep /\ values' # values)
            => /\ AtValuedOption
               /\ NextValueIdx <= Len(args)
               /\ ~ValueRejected
               /\ values' = Insert(values, parser.args[NextArg].name, args[NextValueIdx])]_vars

\* C5 witness: parse failed with InvalidValue on a token its validator
\* rejects, with a positional accumulated before it.
C5_Witness ==
    /\ Done
    /\ result.kind = "InvalidValue"
    /\ positionals # <<>>
    /\ log[Len(log)].out = "invalid"
    /\ log[Len(log)].validated
    /\ ~Validate("isV", args[log[Len(log)].vidx])

\* C6: when parse returns, positionals is a subsequence of the input tokens
\* in input order, and contains no token recognized as an option, consumed
\* as an option's value, or matched as the subcommand.
IsResultPositional(e) == e.d = depth /\ e.kind = "pos"

C6_PositionalsExcludeOptionsAndSubcommand ==
    (Done /\ result = Ok) =>
        LET ps == SelectSeq(log, IsResultPositional)
        IN  /\ Len(positionals) = Len(ps)
            /\ \A j \in DOMAIN ps :
                  /\ positionals[j] = input.args[OrigIdx(ps[j])]
                  /\ \A k \in DOMAIN ps : j < k => OrigIdx(ps[j]) < OrigIdx(ps[k])
                  /\ \A e \in LogEvents :
                        /\ (e.kind \in {"long", "short", "sub"})
                              => OrigIdx(e) # OrigIdx(ps[j])
                        /\ e.vidx # 0 => e.vidx + e.d # OrigIdx(ps[j])

\* the token at index i of the input is a long option matching a flag Arg
\* of the input grammar; the Arg's index, or 0
LongFlagAt(i) ==
    LET tok == input.args[i]
        k == FindLong(input.parser, SubSeq(tok, 3, Len(tok)))
    IN  IF StartsWith(tok, <<"-", "-">>) /\ k # 0 /\ ~input.parser.args[k].takes_value
        THEN k ELSE 0

\* the top-level call processed the token at index i as a long option
ProcessedAsLong(i) == \E e \in LogEvents : e.d = 0 /\ e.kind = "long" /\ e.idx = i

\* the top-level call classified the token at index i on its own, and no
\* option consumed it as its value
ClassifiedOnItsOwn(i) ==
    /\ \E e \in TokenEvents : e.d = 0 /\ e.idx = i
    /\ \A e \in LogEvents : e.d = 0 => e.vidx # i

\* C7 as stated: if --long is processed as a long option matching a flag
\* Arg, the result of parse has flags[name] = true whatever follows, and the
\* following token is classified on its own.
C7_LongFlagAlwaysInResult ==
    Done =>
        \A i \in DOMAIN input.args :
            (ProcessedAsLong(i) /\ LongFlagAt(i) # 0) =>
                LET name == input.parser.args[LongFlagAt(i)].name
                IN  /\ result = Ok => (name \in DOMAIN flags /\ flags[name] = TRUE)
                    /\ i < Len(input.args) => ClassifiedOnItsOwn(i + 1)

\* C7 amended: if --long is processed as a long option matching a flag Arg,
\* the following token is classified on its own, and the result of parse has
\* flags[name] = true provided no later token is matched as a subcommand
\* (whose result replaces the parent's).
C7_LongFlagInResultUnlessDelegated ==
    Done =>
        \A i \in DOMAIN input.args :
            (ProcessedAsLong(i) /\ LongFlagAt(i) # 0) =>
                LET name == input.parser.args[LongFlagAt(i)].name
                IN  /\ (result = Ok /\ depth = 0)
                        => (name \in DOMAIN flags /\ flags[name] = TRUE)
                    /\ i < Len(input.args) => ClassifiedOnItsOwn(i + 1)

\* C7 witness: a long flag followed by a token that became a positional.
C7_Witness ==
    /\ Done
    /\ result = Ok
    /\ depth = 0
    /\ \E i \in DOMAIN input.args :
          /\ ProcessedAsLong(i)
          /\ LongFlagAt(i) # 0
          /\ i < Len(input.args)
          /\ flags[input.parser.args[LongFlagAt(i)].name] = TRUE
          /\ \E e \in TokenEvents : e.d = 0 /\ e.idx = i + 1 /\ e.kind = "pos"

\* C8: the characters of a short cluster are processed left to right, each
\* looked up on its own: a flag character sets flags[name]; a value-taking
\* character consumes the next unconsumed whole token after the cluster
\* (never the rest of the cluster), so several consume successive tokens;
\* the characters after it are still processed; an unmatched character
\* changes nothing.
C8_ClusterCharacters ==
    [][/\ (pc = "loop" /\ pos <= Len(args) /\ StartsWith(args[pos], <<"-">>)
           /\ ~StartsWith(args[pos], <<"-", "-">>))
            => /\ chars' = Tail(args[pos])
               /\ pos' = pos + 1
               /\ <<values, flags, positionals>>' = <<values, flags, positionals>>
       /\ (AtChar /\ ~ValueRejected)
            => /\ chars' = Tail(chars)
               /\ pc' = IF Tail(chars) = <<>> THEN "loop" ELSE "cluster"
               /\ positionals' = positionals
               /\ IF NextArg = 0
                  THEN <<values, flags, pos>>' = <<values, flags, pos>>
                  ELSE IF ~parser.args[NextArg].takes_value
                  THEN /\ flags' = Insert(flags, parser.args[NextArg].name, TRUE)
                       /\ <<values, pos>>' = <<values, pos>>
                  ELSE IF pos <= Len(args)
                  THEN /\ values' = Insert(values, parser.args[NextArg].name, args[pos])
                       /\ pos' = pos + 1
                       /\ flags' = flags
                  ELSE <<values, flags, pos>>' = <<values, flags, pos>>]_vars

\* C8 witness: one cluster -xzy whose characters x and y both take a value
\* took the two following tokens, in order, and the unmatched z nothing.
C8_Witness ==
    /\ Done
    /\ result = Ok
    /\ depth = 0
    /\ Len(args) >= 4
    /\ args[2] = tokCluster
    /\ nameA \in DOMAIN values /\ values[nameA] = args[3]
    /\ nameB \in DOMAIN values /\ values[nameB] = args[4]
    /\ args[3] # args[4]
    /\ \E e \in LogEvents : e.idx = 2 /\ e.c = "z" /\ e.out = "unknown"

\* C9: a value-taking option reached when no unconsumed token remains adds
\* nothing to values or flags, does not call its validator and raises no
\* error; parse then fails only if some required Arg has neither a value
\* nor a default.
NoTokenLeft == AtValuedOption /\ NextValueIdx > Len(args)

SkippedForNoValue == \E e \in LogEvents : e.d = depth /\ e.out = "novalue"

C9_ValuedOptionAtEndSkipped ==
    [][/\ NoTokenLeft
            => /\ <<values, flags, positionals>>' = <<values, flags, positionals>>
               /\ result' = Running
               /\ pc' # "done"
               /\ Len(log') = Len(log) + 1
               /\ ~log'[Len(log')].validated
       /\ (pc' = "done" /\ SkippedForNoValue')
            => \/ result' = Ok
               \/ /\ FirstMissing # 0
                  /\ result' = MissingRequiredArgument(parser.args[FirstMissing].name)]_vars

\* C9 witness: parse returned although a value-taking option with a
\* validator came last; it left no entry.
C9_Witness ==
    /\ Done
    /\ result = Ok
    /\ depth = 0
    /\ \E e \in LogEvents :
          /\ e.d = 0
          /\ e.out = "novalue"
          /\ e.name \notin DOMAIN values
          /\ e.name \notin DOMAIN flags
          /\ \E i \in DOMAIN parser.args :
                parser.args[i].name = e.name /\ parser.args[i].validator # None

====
